---- MODULE Spec2Model ----
(***************************************************************************)
(* vies-proxy: the /api/vies-check handler of src/index.js (the second,    *)
(* current revision, lines 125-342), its VAT normaliser parseVat and its   *)
(* SOAP interpreter parseSOAP.                                             *)
(*                                                                         *)
(* JavaScript strings that the code takes apart (the VAT number) are       *)
(* sequences of one-character strings.  JavaScript values of mixed type    *)
(* are records tagged by the field t.                                      *)
(***************************************************************************)
EXTENDS Integers, Sequences, FiniteSets, TLC

VARIABLES
    raw,        \* parseVat: the argument
    parsedVat,  \* parseVat: the value returned ("pending" before the call)
    vpc,        \* parseVat: "in" before the call, "out" after it
    soapText,   \* parseSOAP: the argument, an upstream response text
    soapOut,    \* parseSOAP: the value returned or the error thrown
    spc,        \* parseSOAP: "in" before the call, "out" after it
    NODE_ENV,       \* process.env.NODE_ENV || "production"
    REQUESTER_VAT,  \* process.env.REQUESTER_VAT || ""
    pc,         \* handler: "idle", "await1" (checkVat pending), "await2"
                \* (checkVatApprox pending), "done" (response sent)
    req,        \* handler: req.query of the request being served
    target,     \* handler: the normalised target VAT
    rq,         \* handler: the normalised requester VAT
    step1,      \* handler: how checkVat settled: Returned(..) or an Error
    step2,      \* handler: how checkVatApprox settled
    calls,      \* the SOAP requests posted for this request, in order
    caught,     \* the errors caught while serving this request, and where
    inflight,   \* the operations posted and not yet answered
    res         \* the response sent: [status, body]

vatVars == <<raw, parsedVat, vpc>>
soapVars == <<soapText, soapOut, spc>>
handlerVars == <<NODE_ENV, REQUESTER_VAT, pc, req, target, rq, step1, step2, calls, caught, inflight, res>>
vars == <<vatVars, soapVars, handlerVars>>

(***************************************************************************)
(* Bounds                                                                  *)
(***************************************************************************)
MaxLen == 6     \* longest raw VAT string given to parseVat

(***************************************************************************)
(* Characters                                                              *)
(***************************************************************************)
Chars == {"E", "u", "f", "1", ".", "+", "!"}

UpperLetters == {"E", "U", "F", "R"}
Digits == {"1"}
Separators == {" ", ".", "-"}          \* the class [\s.-]
NumChars == Digits \cup UpperLetters \cup {"+", "*", "."}   \* [0-9A-Z+*.]

\* String.prototype.toUpperCase on one character
UpperChar(c) ==
    CASE c = "u" -> "U"
      [] c = "f" -> "F"
      [] c = "r" -> "R"
      [] OTHER -> c

toUpperCase(s) == [i \in 1..Len(s) |-> UpperChar(s[i])]

\* s.replace(/[\s.-]/g, "")
RECURSIVE StripSeparators(_)
StripSeparators(s) ==
    IF s = <<>> THEN <<>>
    ELSE IF Head(s) \in Separators THEN StripSeparators(Tail(s))
    ELSE <<Head(s)>> \o StripSeparators(Tail(s))

\* s.slice(from)
slice(s, from) == SubSeq(s, from + 1, Len(s))

\* s.slice(0, to)
sliceTo(s, to) == SubSeq(s, 1, IF Len(s) < to THEN Len(s) ELSE to)

StartsWithEU(s) == Len(s) >= 2 /\ s[1] = "E" /\ s[2] = "U"

\* s.replace(/^EU/, "")
StripEU(s) == IF StartsWithEU(s) THEN slice(s, 2) ELSE s

\* /^[A-Z]{2}$/.test(s)
TestCountry(s) == Len(s) = 2 /\ \A i \in 1..2 : s[i] \in UpperLetters

\* /^[0-9A-Z+*.]{2,}$/.test(s)
TestNumber(s) == Len(s) >= 2 /\ \A i \in 1..Len(s) : s[i] \in NumChars

Undefined == [t |-> "undefined"]
Null == [t |-> "null"]
Str(s) == [t |-> "string", s |-> s]
Array == [t |-> "array"]

\* a thrown Error: its message is head followed by detail
Error(head, detail) == [t |-> "Error", head |-> head, detail |-> detail]
TypeError == Error("", "toUpperCase is not a function")
TrimTypeError == Error("", "trim is not a function")

\* (raw || "").toUpperCase().replace(/[\s.-]/g,"").replace(/^EU/,"")
Cleaned(r) ==
    LET s == IF r.t = "string" THEN r.s ELSE <<>>
    IN  StripEU(StripSeparators(toUpperCase(s)))

\* parseVat without the removal of the EU prefix
parseVatKeepEU(r) ==
    IF r.t = "array" THEN TypeError
    ELSE LET s == IF r.t = "string" THEN r.s ELSE <<>>
             cleaned == StripSeparators(toUpperCase(s))
             cc == sliceTo(cleaned, 2)
             num == slice(cleaned, 2)
         IN  IF ~TestCountry(cc) \/ ~TestNumber(num) THEN Null
             ELSE [t |-> "vat", countryCode |-> cc, vatNumber |-> num]

\* function parseVat(raw): an array (a repeated query parameter) is truthy
\* and has no toUpperCase, so the call throws a TypeError
parseVat(r) ==
    IF r.t = "array" THEN TypeError
    ELSE LET cleaned == Cleaned(r)
             cc == sliceTo(cleaned, 2)
             num == slice(cleaned, 2)
         IN  IF ~TestCountry(cc) \/ ~TestNumber(num) THEN Null
             ELSE [t |-> "vat", countryCode |-> cc, vatNumber |-> num]

(***************************************************************************)
(* JavaScript values other than the VAT strings.  An upstream response     *)
(* text is known by what the code does with it: the tree XMLParser.parse   *)
(* builds from it (an object is the sequence of its keys and values, in    *)
(* insertion order; a key is a namespace prefix and a local name), the     *)
(* outcome of the <valid> regular expression on it, and its length.        *)
(***************************************************************************)
Text(s) == [t |-> "text", v |-> s]
Bool(b) == [t |-> "boolean", b |-> b]
Num(n) == [t |-> "number", n |-> n]
Obj(kv) == [t |-> "object", kv |-> kv]
Key(p, n) == [p |-> p, n |-> n]
KV(k, v) == [k |-> k, v |-> v]

\* JavaScript truthiness: "", 0, false, null and undefined are falsy
Truthy(v) ==
    CASE v.t = "text" -> v.v # ""
      [] v.t = "string" -> v.s # <<>>
      [] v.t \in {"array", "vat"} -> TRUE
      [] v.t = "boolean" -> v.b
      [] v.t = "number" -> v.n # 0
      [] v.t = "object" -> TRUE
      [] OTHER -> FALSE

\* a || b
Or(a, b) == IF Truthy(a) THEN a ELSE b

\* String.prototype.toLowerCase on the element names that occur
LowerName(n) ==
    CASE n \in {"Envelope", "ENVELOPE"} -> "envelope"
      [] n \in {"Body"} -> "body"
      [] n \in {"Fault", "FAULT"} -> "fault"
      [] n \in {"checkVatResponse"} -> "checkvatresponse"
      [] n \in {"checkVatApproxResponse"} -> "checkvatapproxresponse"
      [] n \in {"countryCode"} -> "countrycode"
      [] n \in {"vatNumber"} -> "vatnumber"
      [] n \in {"requestDate"} -> "requestdate"
      [] n \in {"traderName"} -> "tradername"
      [] n \in {"traderAddress"} -> "traderaddress"
      [] n \in {"traderNameMatch"} -> "tradernamematch"
      [] n \in {"traderAddressMatch"} -> "traderaddressmatch"
      [] OTHER -> n

\* Object.keys(obj || {}): a falsy value, a number or a boolean has none, and
\* the index keys of a string match no tag
Keys(v) == IF v.t = "object" THEN v.kv ELSE <<>>

\* the first element of kv whose key satisfies Match, or undefined
RECURSIVE FindKey(_, _, _)
FindKey(kv, tag, byTailOnly) ==
    IF kv = <<>> THEN Undefined
    ELSE LET k == Head(kv).k
             \* kl holds a colon when the key has a prefix, and no tag does
             kl == IF k.p = "" THEN LowerName(k.n) ELSE "prefix:name"
             tail == LowerName(k.n)
             hit == IF byTailOnly THEN tail = tag ELSE (kl = tag \/ tail = tag)
         IN  IF hit THEN Head(kv).v ELSE FindKey(Tail(kv), tag, byTailOnly)

\* const pick = (obj, tag) => ...: kl === t || tail === t
pick(obj, tag) == FindKey(Keys(obj), LowerName(tag), FALSE)

\* const findChild = (obj, tag) => ...: tail === t
findChild(obj, tag) == FindKey(Keys(obj), LowerName(tag), TRUE)

\* obj.Envelope: the property of exactly that name
GetEnvelope(obj) ==
    LET hit == {i \in 1..Len(Keys(obj)) : Keys(obj)[i].k = Key("", "Envelope")}
    IN  IF hit = {} THEN Undefined ELSE Keys(obj)[CHOOSE i \in hit : TRUE].v

\* `${v}` and String(v)
StringOf(v) ==
    CASE v.t = "text" -> v.v
      [] v.t = "boolean" -> IF v.b THEN "true" ELSE "false"
      [] v.t = "number" -> ToString(v.n)
      [] v.t = "object" -> "[object Object]"
      [] OTHER -> v.t

\* s.trim() on the strings that occur
Trim(s) ==
    CASE s = " ACME " -> "ACME"
      [] OTHER -> s

\* s.toLowerCase() on the strings that occur as a valid flag
LowerText(s) ==
    CASE s \in {"TRUE", "True"} -> "true"
      [] s \in {"FALSE"} -> "false"
      [] OTHER -> s

\* s.replace(/\r?\n+/g, "\n") on the strings that occur
CollapseNewlines(s) ==
    CASE s = "1 Rue X\n\n75000 Paris" -> "1 Rue X\n75000 Paris"
      [] OTHER -> s

\* s.toUpperCase() on the fault strings and messages that occur
UpperText(s) ==
    CASE s = "invalid_input" -> "INVALID_INPUT"
      [] s = "SOAP Fault" -> "SOAP FAULT"
      [] s = "VIES Fault: " -> "VIES FAULT: "
      [] s = "ParseError: " -> "PARSEERROR: "
      [] s = "fetch failed" -> "FETCH FAILED"
      [] s = "soap:Server" -> "SOAP:SERVER"
      [] s = "[object Object]" -> "[OBJECT OBJECT]"
      [] s = "true" -> "TRUE"
      [] s = "false" -> "FALSE"
      [] OTHER -> s

Returned(v) == [t |-> "returned", v |-> v]

\* new XMLParser({ignoreAttributes: false}).parse(text)
XMLParse(text) == text.xml

\* text.match(/<[\w:]*valid>\s*(true|false)\s*<\/[\w:]*valid>/i): m[1]
\* lower-cased, or "none"
MatchValid(text) == text.regexValid

\* the fields of the value parseSOAP returns once valid is known
SoapResult(ok, valid) ==
    LET nameVal == Or(Or(pick(ok, "name"), pick(ok, "traderName")), Text(""))
        addrVal == Or(Or(pick(ok, "address"), pick(ok, "traderAddress")), Text(""))
    IN  IF nameVal.t # "text" THEN TrimTypeError
        ELSE Returned([
            valid |-> valid,
            countryCode |-> Or(pick(ok, "countryCode"), Null),
            vatNumber |-> Or(pick(ok, "vatNumber"), Null),
            requestDate |-> Or(pick(ok, "requestDate"), Null),
            name |-> Trim(nameVal.v),
            address |-> Trim(CollapseNewlines(StringOf(addrVal))),
            traderMatch |-> [name |-> Or(pick(ok, "traderNameMatch"), Null),
                             address |-> Or(pick(ok, "traderAddressMatch"), Null)]])

\* const env = findChild(xml, "envelope") || xml.Envelope || xml
EnvelopeOf(xml) == Or(Or(findChild(xml, "envelope"), GetEnvelope(xml)), xml)

\* const fs = pick(fault, "faultstring") || pick(fault, "faultcode") || "SOAP Fault"
FaultString(fault) ==
    Or(Or(pick(fault, "faultstring"), pick(fault, "faultcode")), Text("SOAP Fault"))

\* const ok = findChild(body, "checkVatResponse") || findChild(body, "checkVatApproxResponse")
ResponseIn(body) ==
    Or(findChild(body, "checkVatResponse"), findChild(body, "checkVatApproxResponse"))

\* parseSOAP from the valid field on: a boolean is taken as it is, any
\* other value present is compared to "true", and an absent one is looked
\* for in the raw text
FromValid(text, ok, validVal) ==
    IF validVal.t = "boolean" THEN SoapResult(ok, validVal.b)
    ELSE IF validVal.t \notin {"undefined", "null"}
    THEN SoapResult(ok, LowerText(Trim(StringOf(validVal))) = "true")
    ELSE IF MatchValid(text) = "none" THEN Error("ParseError: ", "valid not found")
    ELSE SoapResult(ok, MatchValid(text) = "true")

\* parseSOAP from the response element on
FromResponse(text, ok) ==
    IF ~Truthy(ok) THEN Error("ParseError: ", "*Response not found")
    ELSE FromValid(text, ok, pick(ok, "valid"))

\* parseSOAP from the fault test on: if (fault) { ... throw err }
FromFault(text, body, fault) ==
    IF Truthy(fault) THEN Error("VIES Fault: ", StringOf(FaultString(fault)))
    ELSE FromResponse(text, ResponseIn(body))

\* parseSOAP from the body element on
FromBody(text, body) ==
    IF ~Truthy(body) THEN Error("ParseError: ", "Body not found")
    ELSE FromFault(text, body, findChild(body, "fault"))

\* function parseSOAP(text): the value returned or the error thrown
parseSOAP(text) == FromBody(text, findChild(EnvelopeOf(XMLParse(text)), "body"))

(***************************************************************************)
(* Upstream response texts                                                 *)
(***************************************************************************)
FaultStrings ==
    {"INVALID_INPUT", "invalid_input", "MS_UNAVAILABLE", "SERVICE_UNAVAILABLE",
     "GLOBAL_MAX_CONCURRENT_REQ", "SERVER_BUSY", "INVALID_REQUESTER_INFO"}

FaultDetail(fs) ==
    Obj(<<KV(Key("", "faultcode"), Text("soap:Server")), KV(Key("", "faultstring"), Text(fs))>>)

\* <Fault/> and <Fault></Fault> parse to "", <Fault>0</Fault> to the number 0
FaultValues ==
    {FaultDetail(fs) : fs \in FaultStrings}
    \cup {Obj(<<KV(Key("", "faultcode"), Text("soap:Server"))>>), Text("denied"), Text(""), Num(0)}

FaultKeys == {Key("", "Fault"), Key("soap", "Fault"), Key("S", "FAULT")}

ValidOptions == {Bool(TRUE), Bool(FALSE), Text("TRUE"), Text(""), Undefined}
NameOptions == {Text(" ACME "), Num(123), Undefined}

Field(p, n, v) == IF v = Undefined THEN <<>> ELSE <<KV(Key(p, n), v)>>

ResponseValue(p, validOpt, nameOpt) ==
    Obj(Field(p, "countryCode", Text("FR")) \o Field(p, "vatNumber", Num(12345678))
        \o Field(p, "requestDate", Text("2024-01-01+01:00")) \o Field(p, "valid", validOpt)
        \o Field(p, IF p = "" THEN "name" ELSE "traderName", nameOpt)
        \o Field(p, "address", Text("1 Rue X\n\n75000 Paris")))

ResponseElements ==
    {KV(Key(p, n), ResponseValue(p, v, nm)) :
        p \in {"", "ns2"}, n \in {"checkVatResponse", "checkVatApproxResponse"},
        v \in ValidOptions, nm \in NameOptions}

FaultElements == {KV(k, v) : k \in FaultKeys, v \in FaultValues}

\* the children of the body element: a fault, a response, or both in either order
BodyChildren ==
    {<<>>} \cup {<<e>> : e \in FaultElements \cup ResponseElements}
    \cup {<<f, r>> : f \in FaultElements, r \in ResponseElements}
    \cup {<<r, f>> : r \in ResponseElements, f \in FaultElements}

BodyKeys == {Key("soap", "Body"), Key("", "Body")}
EnvelopeKeys == {Key("soap", "Envelope"), Key("", "Envelope")}

\* the trees of the texts with a body, and of texts that are no SOAP at all
SoapTrees ==
    {Obj(<<KV(e, Obj(<<KV(b, Obj(c))>>))>>) : e \in EnvelopeKeys, b \in BodyKeys, c \in BodyChildren}
    \cup {Obj(<<KV(e, Obj(<<KV(b, Text(""))>>))>>) : e \in EnvelopeKeys, b \in BodyKeys}
    \cup {Obj(<<KV(Key("", "html"), Text("Bad Gateway"))>>), Obj(<<>>)}

\* the response element the tree holds, when it holds one
ResponseOf(xml) ==
    LET env == Or(findChild(xml, "envelope"), xml)
        body == findChild(env, "body")
    IN  Or(findChild(body, "checkVatResponse"), findChild(body, "checkVatApproxResponse"))

\* what the <valid> regular expression finds in a text of this tree: the
\* flag of the response when it is a literal true or false, and anything
\* when the response has no such element (the tag may stand elsewhere)
RegexOutcomes(xml) ==
    LET v == pick(ResponseOf(xml), "valid")
    IN  IF v.t = "boolean" THEN {IF v.b THEN "true" ELSE "false"}
        ELSE {"none", "true", "false"}

Response(xml, rx, len) == [t |-> "responseText", xml |-> xml, regexValid |-> rx, len |-> len]

SoapTexts == {Response(x, rx, 300) : x \in SoapTrees, rx \in {"none", "true", "false"}}

(***************************************************************************)
(* The /api/vies-check handler                                             *)
(***************************************************************************)
RawLimit == 2000

\* {...a, ...b}: the properties of b override those of a
Spread(a, b) == [f \in DOMAIN a \cup DOMAIN b |-> IF f \in DOMAIN b THEN b[f] ELSE a[f]]

\* raw.slice(0, 2000)
SliceRaw(text) == [text EXCEPT !.len = IF text.len < RawLimit THEN text.len ELSE RawLimit]

\* s.includes(tok) on the upper-cased strings that occur
Contains(s, tok) ==
    \/ s = tok
    \/ tok = "BUSY" /\ s = "SERVER_BUSY"
    \/ tok = "PARSEERROR" /\ s = "PARSEERROR: "

\* (e?.message || "").toUpperCase().includes(tok)
MsgIncludes(e, tok) == Contains(UpperText(e.head), tok) \/ Contains(UpperText(e.detail), tok)

\* e.message
Message(e) == <<e.head, e.detail>>

\* res.status(status).json(body)
Json(status, body) == [status |-> status, body |-> body]

\* the body posted by checkVat
CheckVatCall(tg) ==
    [op |-> "checkVat", countryCode |-> tg.countryCode, vatNumber |-> tg.vatNumber]

\* the body posted by checkVatApprox, the trader fields empty
CheckVatApproxCall(tg, r) ==
    [op |-> "checkVatApprox", countryCode |-> tg.countryCode, vatNumber |-> tg.vatNumber,
     traderName |-> "", traderStreet |-> "", traderPostcode |-> "", traderCity |-> "",
     requesterCountryCode |-> r.countryCode, requesterVatNumber |-> r.vatNumber]

\* return { parsed: parseSOAP(text), raw: text }, unless parseSOAP threw
SettleParsed(p, text) ==
    IF p.t = "Error" THEN p ELSE [t |-> "step", parsed |-> p.v, raw |-> text]

\* how checkVat / checkVatApprox settles on an upstream outcome: fetch
\* rejects, parseSOAP throws, or { parsed, raw } is returned
Settle(o) ==
    IF o.t = "Error" THEN o ELSE SettleParsed(parseSOAP(o), o)

\* the outer catch: 502 with the message of the error
OuterCatch(e) == Json(502, [ok |-> FALSE, error |-> Message(e)])

\* the catch around checkVat answering a parse error as a result
ExactCatchLenient(e) ==
    IF MsgIncludes(e, "PARSEERROR")
    THEN Json(200, [ok |-> TRUE, valid |-> FALSE, source |-> "standard"])
    ELSE Json(502, [ok |-> FALSE, error |-> Message(e)])

\* the catch around checkVat: the fault is classified, anything else rethrown
ExactCatch(e) ==
    IF MsgIncludes(e, "INVALID_INPUT")
    THEN Json(400, [ok |-> FALSE, error |-> <<"VIES: INVALID_INPUT (format non conforme)">>])
    ELSE IF MsgIncludes(e, "SERVICE_UNAVAILABLE") \/ MsgIncludes(e, "MS_UNAVAILABLE")
    THEN Json(503, [ok |-> FALSE, error |-> <<"VIES indisponible (reessayer)">>])
    ELSE IF MsgIncludes(e, "GLOBAL_MAX_CONCURRENT_REQ") \/ MsgIncludes(e, "BUSY")
    THEN Json(429, [ok |-> FALSE, error |-> <<"VIES rate limit (trop de requetes)">>])
    ELSE IF MsgIncludes(e, "PARSEERROR")
    THEN Json(502, [ok |-> FALSE, error |-> <<"Erreur de parsing SOAP">>])
    ELSE OuterCatch(e)

\* whether the catch around checkVat rethrows e to the outer catch
Rethrown(e) ==
    ~\E tok \in {"INVALID_INPUT", "SERVICE_UNAVAILABLE", "MS_UNAVAILABLE",
                 "GLOBAL_MAX_CONCURRENT_REQ", "BUSY", "PARSEERROR"} : MsgIncludes(e, tok)

\* the return taken when step1.parsed.valid
ShortCircuit(s1, debug, env) ==
    LET out == Spread([ok |-> TRUE], s1.parsed)
    IN  Json(200, IF debug = Text("1") /\ env # "production"
                  THEN Spread(out, [f \in {"_raw"} |-> SliceRaw(s1.raw)])
                  ELSE out)

\* step2?.parsed?.valid
ApproxValid(s2) == s2.t = "step" /\ s2.parsed.valid

\* the final return: best is step2 when it reports valid, step1 otherwise
FinalReturn(s1, s2, debug, env) ==
    LET best == IF ApproxValid(s2) THEN s2 ELSE s1
        out == Spread(Spread([ok |-> TRUE], best.parsed),
                      [source |-> IF ApproxValid(s2) THEN "approx" ELSE "standard"])
    IN  Json(200, IF debug = Text("1")
                  THEN Spread(out, [f \in {"_raw"} |-> SliceRaw(best.raw)])
                  ELSE out)

\* requesterVat ? parseVat(requesterVat) : (REQUESTER_VAT ? parseVat(REQUESTER_VAT) : null)
Requester(q, envVat) ==
    IF Truthy(q.requesterVat) THEN parseVat(q.requesterVat)
    ELSE IF Truthy(envVat) THEN parseVat(envVat)
    ELSE Null

Caught(at, e) == [at |-> at, e |-> e]

(***************************************************************************)
(* Requests and upstream outcomes                                          *)
(***************************************************************************)
\* req.query.vat and req.query.requesterVat: absent, a string, or an array
\* when the parameter is repeated in the query string
VatParams ==
    {Undefined, Array, Str(<<>>), Str(<<"f", "r", " ", "1", "1">>),
     Str(<<"E", "u", "-", "f", "r", "1", "1">>), Str(<<"1", "1">>)}

DebugParams == {Undefined, Text("1"), Text("true")}

Queries == [vat : VatParams, requesterVat : VatParams, debug : DebugParams]

EnvRequesterVats == {Str(<<>>), Str(<<"F", "R", "1", "+">>), Str(<<"x">>)}

Envelope(children) ==
    Obj(<<KV(Key("soap", "Envelope"), Obj(<<KV(Key("soap", "Body"), Obj(children))>>))>>)

ResponseText(n, v, nm, len) ==
    Response(Envelope(<<KV(Key("ns2", n), ResponseValue("ns2", v, nm))>>),
             IF v.t = "boolean" THEN (IF v.b THEN "true" ELSE "false") ELSE "none", len)

FaultText(fs) == Response(Envelope(<<KV(Key("soap", "Fault"), FaultDetail(fs))>>), "none", 300)

UpstreamTexts ==
    {ResponseText(n, Bool(b), Text(" ACME "), len) :
        n \in {"checkVatResponse", "checkVatApproxResponse"}, b \in BOOLEAN, len \in {300, 2500}}
    \cup {FaultText(fs) : fs \in FaultStrings}
    \cup {ResponseText("checkVatResponse", Undefined, Text(" ACME "), 300),
          ResponseText("checkVatResponse", Bool(TRUE), Num(123), 300),
          Response(Envelope(<<KV(Key("soap", "Fault"), Text("")),
                              KV(Key("ns2", "checkVatResponse"),
                                 ResponseValue("ns2", Bool(TRUE), Text(" ACME ")))>>), "true", 300),
          Response(Obj(<<KV(Key("", "html"), Text("Bad Gateway"))>>), "none", 300)}

\* fetch rejects: the transport fails, or AbortSignal.timeout fires
NetworkErrors ==
    {Error("", "fetch failed"), Error("", "The operation was aborted due to timeout")}

UpstreamOutcomes == UpstreamTexts \cup NetworkErrors

(***************************************************************************)
(* The handler as a state machine                                          *)
(***************************************************************************)
VatIdle ==
    /\ raw = Undefined
    /\ parsedVat = [t |-> "pending"]
    /\ vpc = "off"

SoapIdle ==
    /\ soapText = Undefined
    /\ soapOut = [t |-> "pending"]
    /\ spc = "off"

HandlerIdle ==
    /\ NODE_ENV = "production"
    /\ REQUESTER_VAT = Str(<<>>)
    /\ pc = "off"
    /\ req = Undefined
    /\ target = Undefined
    /\ rq = Undefined
    /\ step1 = Undefined
    /\ step2 = Undefined
    /\ calls = <<>>
    /\ caught = <<>>
    /\ inflight = {}
    /\ res = Undefined

Done(response) ==
    /\ res' = response
    /\ pc' = "done"
    /\ inflight' = {}

\* a new request starts with nothing left of the one before
Fresh(q) ==
    /\ pc \in {"idle", "done"}
    /\ req' = q
    /\ rq' = Undefined
    /\ step1' = Undefined
    /\ step2' = Undefined
    /\ UNCHANGED <<NODE_ENV, REQUESTER_VAT, vatVars, soapVars>>

\* parseVat(vat) throws: the outer catch answers 502
ReceiveThrows(q) ==
    /\ Fresh(q)
    /\ parseVat(q.vat).t = "Error"
    /\ target' = Undefined
    /\ caught' = <<Caught("outer", parseVat(q.vat))>>
    /\ calls' = <<>>
    /\ Done(OuterCatch(parseVat(q.vat)))

\* the answer to a target VAT that posts checkVat all the same
ReceiveInvalidPosts(q) ==
    /\ Fresh(q)
    /\ parseVat(q.vat) = Null
    /\ target' = Null
    /\ caught' = <<>>
    /\ calls' = <<[op |-> "checkVat", countryCode |-> <<>>, vatNumber |-> <<>>]>>
    /\ Done(Json(400, [ok |-> FALSE, error |-> <<"VAT invalide (format)">>]))

\* if (!target) return res.status(400).json(...)
ReceiveInvalid(q) ==
    /\ Fresh(q)
    /\ parseVat(q.vat) = Null
    /\ target' = Null
    /\ caught' = <<>>
    /\ calls' = <<>>
    /\ Done(Json(400, [ok |-> FALSE, error |-> <<"VAT invalide (format)">>]))

\* checkVat and checkVatApprox posted together at the start
ReceiveValidPostsBoth(q) ==
    /\ Fresh(q)
    /\ parseVat(q.vat).t = "vat"
    /\ target' = parseVat(q.vat)
    /\ caught' = <<>>
    /\ calls' = <<CheckVatCall(parseVat(q.vat)),
                  CheckVatApproxCall(parseVat(q.vat), parseVat(q.vat))>>
    /\ inflight' = {"checkVat", "checkVatApprox"}
    /\ res' = Undefined
    /\ pc' = "await1"

\* step1 = await checkVat(target.countryCode, target.vatNumber): posted
ReceiveValid(q) ==
    /\ Fresh(q)
    /\ parseVat(q.vat).t = "vat"
    /\ target' = parseVat(q.vat)
    /\ caught' = <<>>
    /\ calls' = <<CheckVatCall(parseVat(q.vat))>>
    /\ inflight' = {"checkVat"}
    /\ res' = Undefined
    /\ pc' = "await1"

\* checkVat has settled
Await1 ==
    /\ pc = "await1"
    /\ UNCHANGED <<NODE_ENV, REQUESTER_VAT, req, target, step2, vatVars, soapVars>>

\* checkVat throws: the error is classified, or rethrown to the outer catch
ExactThrows(o) ==
    /\ Await1
    /\ Settle(o).t = "Error"
    /\ caught' = IF Rethrown(Settle(o))
                 THEN <<Caught("step1", Settle(o)), Caught("outer", Settle(o))>>
                 ELSE <<Caught("step1", Settle(o))>>
    /\ Done(ExactCatch(Settle(o)))
    /\ UNCHANGED <<step1, rq, calls>>

\* if (step1.parsed.valid): never
IsValidNever(s1) == FALSE

\* if (step1.parsed.valid)
IsValid(s1) == s1.parsed.valid

\* the exact check reports valid: the handler returns at once
ExactValid(o) ==
    /\ Await1
    /\ Settle(o).t = "step"
    /\ IsValid(Settle(o))
    /\ step1' = Settle(o)
    /\ Done(ShortCircuit(Settle(o), req.debug, NODE_ENV))
    /\ UNCHANGED <<rq, calls, caught>>

\* the exact check reports invalid
ExactInvalid(o) ==
    /\ Await1
    /\ Settle(o).t = "step"
    /\ ~IsValid(Settle(o))
    /\ step1' = Settle(o)

\* ... and parseVat(requesterVat) throws: the outer catch answers 502
ExactInvalidRequesterThrows(o) ==
    /\ ExactInvalid(o)
    /\ Requester(req, REQUESTER_VAT).t = "Error"
    /\ caught' = <<Caught("outer", Requester(req, REQUESTER_VAT))>>
    /\ Done(OuterCatch(Requester(req, REQUESTER_VAT)))
    /\ UNCHANGED <<rq, calls>>

\* ... and there is a requester: step2 = await checkVatApprox(...): posted
ExactInvalidPostsApprox(o) ==
    /\ ExactInvalid(o)
    /\ Requester(req, REQUESTER_VAT).t = "vat"
    /\ rq' = Requester(req, REQUESTER_VAT)
    /\ calls' = Append(calls, CheckVatApproxCall(target, Requester(req, REQUESTER_VAT)))
    /\ inflight' = (inflight \ {"checkVat"}) \cup {"checkVatApprox"}
    /\ pc' = "await2"
    /\ UNCHANGED <<res, caught>>

\* ... and there is no requester: the exact result is returned
ExactInvalidNoRequester(o) ==
    /\ ExactInvalid(o)
    /\ Requester(req, REQUESTER_VAT) = Null
    /\ rq' = Null
    /\ Done(FinalReturn(Settle(o), Undefined, req.debug, NODE_ENV))
    /\ UNCHANGED <<calls, caught>>

\* checkVatApprox has settled
Await2 ==
    /\ pc = "await2"
    /\ UNCHANGED <<NODE_ENV, REQUESTER_VAT, req, target, rq, step1, calls, vatVars, soapVars>>

\* the error of checkVatApprox reaches the outer catch
ApproxThrowsPropagates(o) ==
    /\ Await2
    /\ Settle(o).t = "Error"
    /\ step2' = Undefined
    /\ caught' = <<Caught("step2", Settle(o)), Caught("outer", Settle(o))>>
    /\ Done(OuterCatch(Settle(o)))

\* checkVatApprox throws: catch (e) { step2 = null }, step1 is returned
ApproxThrows(o) ==
    /\ Await2
    /\ Settle(o).t = "Error"
    /\ step2' = Null
    /\ caught' = <<Caught("step2", Settle(o))>>
    /\ Done(FinalReturn(step1, Null, req.debug, NODE_ENV))

\* checkVatApprox returns: the better of the two results is returned
ApproxReturns(o) ==
    /\ Await2
    /\ Settle(o).t = "step"
    /\ step2' = Settle(o)
    /\ UNCHANGED caught
    /\ Done(FinalReturn(step1, Settle(o), req.debug, NODE_ENV))

Init ==
    /\ NODE_ENV \in {"production", "development"}
    /\ REQUESTER_VAT \in EnvRequesterVats
    /\ pc = "idle"
    /\ req = Undefined
    /\ target = Undefined
    /\ rq = Undefined
    /\ step1 = Undefined
    /\ step2 = Undefined
    /\ calls = <<>>
    /\ caught = <<>>
    /\ inflight = {}
    /\ res = Undefined
    /\ VatIdle
    /\ SoapIdle

Next ==
    \/ \E q \in Queries : ReceiveThrows(q)
    \/ \E q \in Queries : ReceiveInvalid(q)
    \/ \E q \in Queries : ReceiveValid(q)
    \/ \E o \in UpstreamOutcomes : ExactThrows(o)
    \/ \E o \in UpstreamOutcomes : ExactValid(o)
    \/ \E o \in UpstreamOutcomes : ExactInvalidRequesterThrows(o)
    \/ \E o \in UpstreamOutcomes : ExactInvalidPostsApprox(o)
    \/ \E o \in UpstreamOutcomes : ExactInvalidNoRequester(o)
    \/ \E o \in UpstreamOutcomes : ApproxThrows(o)
    \/ \E o \in UpstreamOutcomes : ApproxReturns(o)

Spec == Init /\ [][Next]_vars

(***************************************************************************)
(* parseVat as a state machine: an argument is chosen, then the call runs  *)
(***************************************************************************)
RECURSIVE StringsUpTo(_)
StringsUpTo(n) ==
    IF n = 0 THEN {<<>>}
    ELSE LET shorter == StringsUpTo(n - 1)
         IN  shorter \cup {Append(s, c) : s \in {x \in shorter : Len(x) = n - 1}, c \in Chars}

InitVat ==
    /\ raw \in {Str(s) : s \in StringsUpTo(MaxLen)} \cup {Undefined}
    /\ parsedVat = [t |-> "pending"]
    /\ vpc = "in"
    /\ SoapIdle
    /\ HandlerIdle

CallParseVat ==
    /\ vpc = "in"
    /\ parsedVat' = parseVat(raw)
    /\ vpc' = "out"
    /\ UNCHANGED <<raw, soapVars, handlerVars>>

NextVat == CallParseVat

SpecVat == InitVat /\ [][NextVat]_vars

InitSoap ==
    /\ soapText \in {s \in SoapTexts : s.regexValid \in RegexOutcomes(s.xml)}
    /\ soapOut = [t |-> "pending"]
    /\ spc = "in"
    /\ VatIdle
    /\ HandlerIdle

CallParseSOAP ==
    /\ spc = "in"
    /\ soapOut' = parseSOAP(soapText)
    /\ spc' = "out"
    /\ UNCHANGED <<soapText, vatVars, handlerVars>>

NextSoap == CallParseSOAP

SpecSoap == InitSoap /\ [][NextSoap]_vars

(***************************************************************************)
(* Properties                                                              *)
(***************************************************************************)
Posted(op) == {i \in 1..Len(calls) : calls[i].op = op}
ExactRaised == \E i \in 1..Len(caught) : caught[i].at = "step1"
ApproxRaised == \E i \in 1..Len(caught) : caught[i].at = "step2"
ExactInvalidResult == step1.t = "step" /\ ~step1.parsed.valid
Carries(body, parsed) == \A f \in DOMAIN parsed : f \in DOMAIN body /\ body[f] = parsed[f]
Success == res.status = 200 /\ res.body.ok
Failure == res.status \notin 200..299 /\ ~res.body.ok

\* C1: once the exact check has returned valid = true, the request has made
\* exactly one upstream call, checkVat, it is answered, and checkVatApprox
\* has not been and is not being called, whatever requester VAT there is.
C1_ShortCircuit ==
    (step1.t = "step" /\ step1.parsed.valid) =>
        /\ pc = "done"
        /\ Len(calls) = 1
        /\ calls[1].op = "checkVat"
        /\ inflight = {}
        /\ step2 = Undefined

C1_Witness ==
    /\ pc = "done"
    /\ step1.t = "step" /\ step1.parsed.valid
    /\ Requester(req, REQUESTER_VAT).t = "vat"
    /\ Success

\* C2: when the exact check returned valid = false and checkVatApprox was
\* posted and threw, the response is a success carrying every field of the
\* exact result with source "standard", and no error.
C2_DegradeOnApproxFailure ==
    (pc = "done" /\ ExactInvalidResult /\ ApproxRaised) =>
        /\ Success
        /\ Carries(res.body, step1.parsed)
        /\ res.body.source = "standard"
        /\ "error" \notin DOMAIN res.body

C2_Witness ==
    /\ pc = "done" /\ ExactInvalidResult /\ ApproxRaised
    /\ Posted("checkVatApprox") # {}
    /\ Success

\* C3 (as stated): when the exact check returned valid = false, the response
\* is the approximate result with source "approx" if checkVatApprox was
\* posted, returned and reports valid = true, and in every other case the
\* exact result with source "standard".
C3_Original ==
    (pc = "done" /\ ExactInvalidResult) =>
        /\ Success
        /\ IF Posted("checkVatApprox") # {} /\ ApproxValid(step2)
           THEN res.body.source = "approx" /\ Carries(res.body, step2.parsed)
           ELSE res.body.source = "standard" /\ Carries(res.body, step1.parsed)

\* C3 for the requests whose requesterVat is absent or one string: what is
\* stated above, which the code then satisfies.
C3_StringRequester ==
    (pc = "done" /\ ExactInvalidResult /\ req.requesterVat.t # "array") =>
        /\ Success
        /\ IF Posted("checkVatApprox") # {} /\ ApproxValid(step2)
           THEN res.body.source = "approx" /\ Carries(res.body, step2.parsed)
           ELSE res.body.source = "standard" /\ Carries(res.body, step1.parsed)

\* C4 (as stated): every success response has a source that is "standard" or
\* "approx", and it is "standard" when the exact check reports valid = true.
C4_Original ==
    (pc = "done" /\ res.status = 200) =>
        /\ "source" \in DOMAIN res.body
        /\ res.body.source \in {"standard", "approx"}
        /\ (step1.parsed.valid => res.body.source = "standard")

\* C5: when parseVat returns null for the target, the response is 400 with
\* ok: false and no upstream call has been posted for the request.
C5_InvalidTargetNoCall ==
    (target = Null) =>
        /\ pc = "done"
        /\ res.status = 400 /\ ~res.body.ok
        /\ calls = <<>>
        /\ inflight = {}

C5_Witness ==
    /\ target = Null /\ pc = "done"
    /\ req.vat = Str(<<"1", "1">>)
    /\ Truthy(req.requesterVat)
    /\ res.status = 400

\* C6: when checkVat threw, the response is a failure (ok: false, status not
\* 2xx) and checkVatApprox has not been posted, even with a requester VAT.
C6_ExactErrorPropagates ==
    (pc = "done" /\ ExactRaised) =>
        /\ Failure
        /\ Posted("checkVatApprox") = {}
        /\ Len(calls) = 1

C6_Witness ==
    /\ pc = "done" /\ ExactRaised
    /\ Requester(req, REQUESTER_VAT).t = "vat"
    /\ res.status = 503

\* C7: a request posts at most two upstream calls, at most one checkVat and
\* at most one checkVatApprox; checkVatApprox is posted only after checkVat
\* has returned, and the two are never in flight together.
C7_AtMostTwoSequentialCalls ==
    /\ Len(calls) <= 2
    /\ Cardinality(Posted("checkVat")) <= 1
    /\ Cardinality(Posted("checkVatApprox")) <= 1
    /\ Cardinality(inflight) <= 1
    /\ (Posted("checkVatApprox") # {} =>
            /\ calls[1].op = "checkVat"
            /\ "checkVat" \notin inflight
            /\ step1.t = "step")

C7_Witness ==
    /\ pc = "await2"
    /\ Len(calls) = 2
    /\ inflight = {"checkVatApprox"}

\* the body element of a response text, and whether it has a child of one
\* of these local names
BodyOf(text) == findChild(EnvelopeOf(XMLParse(text)), "body")
HasChild(body, names) == \E i \in 1..Len(Keys(body)) : LowerName(Keys(body)[i].k.n) \in names

\* C8 (as stated): a response whose body holds both a fault element and a
\* checkVatResponse or checkVatApproxResponse element makes parseSOAP throw
\* the fault error, whatever the prefixes, the order and the fault's content.
C8_Original ==
    (/\ spc = "out"
     /\ HasChild(BodyOf(soapText), {"fault"})
     /\ HasChild(BodyOf(soapText), {"checkvatresponse", "checkvatapproxresponse"})) =>
        /\ soapOut.t = "Error"
        /\ soapOut.head = "VIES Fault: "

\* the argument of parseVat upper-cased, without whitespace, periods, hyphens
Normal(r) == StripSeparators(toUpperCase(IF r.t = "string" THEN r.s ELSE <<>>))

\* [A-Z]{2}[0-9A-Z+*.]{2,}
CountryAndNumber(s) ==
    /\ Len(s) >= 4
    /\ \A i \in 1..2 : s[i] \in UpperLetters
    /\ \A i \in 3..Len(s) : s[i] \in NumChars

\* EU?[A-Z]{2}[0-9A-Z+*.]{2,}
MatchesShape(s) ==
    \/ CountryAndNumber(s)
    \/ StartsWithEU(s) /\ CountryAndNumber(SubSeq(s, 3, Len(s)))

\* C9 (as stated): parseVat succeeds exactly on the inputs of the shape
\* EU?[A-Z]{2}[0-9A-Z+*.]{2,}, those whose country part is EU included.
C9_Original ==
    (vpc = "out") => (MatchesShape(Normal(raw)) <=> parsedVat.t = "vat")

\* C9 (amended): a normalised input that begins with EU is read as carrying
\* the prefix.  parseVat succeeds exactly when the input without that prefix
\* has the shape [A-Z]{2}[0-9A-Z+*.]{2,}, and returns its first two
\* characters and the rest; on every other input it returns null.
C9_Amended ==
    (vpc = "out") =>
        LET n == Normal(raw)
            d == IF StartsWithEU(n) THEN SubSeq(n, 3, Len(n)) ELSE n
        IN  IF CountryAndNumber(d)
            THEN parsedVat = [t |-> "vat", countryCode |-> SubSeq(d, 1, 2),
                              vatNumber |-> SubSeq(d, 3, Len(d))]
            ELSE parsedVat = Null

C9_Witness ==
    /\ vpc = "out"
    /\ Normal(raw) = <<"E", "U", "1", "1">>
    /\ parsedVat = Null

\* C10 (as stated): in production no response carries the raw upstream
\* text, whatever the debug flag and on either return of the handler.
C10_Original ==
    (NODE_ENV = "production" /\ pc = "done") => "_raw" \notin DOMAIN res.body

====
